---- MODULE Spec2Model ----
(***************************************************************************)
(* Model of dynamic-hostports-k8s (src/src/main.go): the controller that   *)
(* watches marker-labelled pods, creates one endpoint + NodePort service   *)
(* per requested port, patches the assigned node port back onto the pod    *)
(* as an annotation, deletes the services of deleted pods, and removes     *)
(* stale services once at start.                                           *)
(*                                                                         *)
(* Strings that the code only compares and concatenates (names, keys) are  *)
(* TLA+ strings; the value of the marker label, which the code splits and  *)
(* parses, is a sequence of one-character strings.                         *)
(***************************************************************************)
EXTENDS Integers, Sequences, FiniteSets, TLC

\* ------------------------------------------------------------------ bounds

\* Steps the cluster's users may take (pods created, changed, removed; node
\* addresses changed).
MaxEnvSteps == 3

\* Injected failures: API calls that fail for a reason outside the model
\* (network, admission), broken watch subscriptions, and kills of the process
\* in the middle of an event.
MaxFaults == 1

\* Pods that exist at a time.
MaxPods == 2

\* Size of the platform's pool of node ports (one for each service the pods of
\* PodIds can ask for).
NumNodePorts == 6

\* ------------------------------------------------------- program constants

annotationPrefix == "dynamic-hostports.k8s"

managedByLabelValue == annotationPrefix

\* First port of the platform's node port range (the specification's examples
\* use 31000).
NodePortBase == 31000

\* ---------------------------------------------------------------- universe

Namespaces == {"n1", "n2"}

PodNames == {"a", "b"}

\* The pods the cluster's users may create: two of one namespace, and one of
\* another namespace with the name of one of them.
PodIds == {<<"n1", "a">>, <<"n1", "b">>, <<"n2", "a">>}

Nodes == {"node1"}

NoExternal == <<[Type |-> "InternalIP", Address |-> "192.168.0.1"]>>

\* node.Status.Addresses of a node: no ExternalIP entry, or one after an
\* InternalIP entry.
WithExternal(address) ==
    <<[Type |-> "InternalIP", Address |-> "192.168.0.1"],
      [Type |-> "ExternalIP", Address |-> address]>>

\* The last one is an ExternalIP entry whose Address is the empty string: the
\* API accepts it in a node's status, and the code reads Address unchecked.
NodeStatuses ==
    {NoExternal, WithExternal("1.1.1.1"), WithExternal("2.2.2.2"), WithExternal("")}

PodIPValue == "10.0.0.7"

\* Values of the marker label.
Labels ==
    { <<"8", "0", ".", "8", "1">>,        \* two valid ports
      <<"8", "0", ".", "x">>,             \* a valid token, then a non-numeric one
      <<"8", "0", ".", "0">> }            \* a valid token, then one out of range

\* Status.Phase and Status.PodIP of a pod: scheduled but not running, running
\* with its address still unset, running.
PodStatuses ==
    { [phase |-> "Pending", ip |-> PodIPValue],
      [phase |-> "Running", ip |-> ""],
      [phase |-> "Running", ip |-> PodIPValue] }

NodePorts == NodePortBase .. (NodePortBase + NumNodePorts - 1)

\* The longest port list, in tokens, that is parsed on its own.
MaxTokens == 3

\* ------------------------------------------------------------ pure helpers

Digits == <<"0", "1", "2", "3", "4", "5", "6", "7", "8", "9">>

IsDigit(ch) == \E i \in 1..10 : Digits[i] = ch

DigitVal(ch) == (CHOOSE i \in 1..10 : Digits[i] = ch) - 1

\* strings.Split(s, "."): the tokens between the dots, empty ones included;
\* an empty string gives one empty token.
RECURSIVE SplitFrom(_, _, _)
SplitFrom(chars, i, cur) ==
    IF i > Len(chars) THEN <<cur>>
    ELSE IF chars[i] = "." THEN <<cur>> \o SplitFrom(chars, i + 1, <<>>)
    ELSE SplitFrom(chars, i + 1, Append(cur, chars[i]))

Split(chars) == SplitFrom(chars, 1, <<>>)

RECURSIVE DigitsValue(_, _)
DigitsValue(tok, acc) ==
    IF tok = <<>> THEN acc
    ELSE DigitsValue(Tail(tok), acc * 10 + DigitVal(Head(tok)))

\* strconv.Atoi: an optional sign, then one or more decimal digits.
Atoi(tok) ==
    LET signed == tok # <<>> /\ Head(tok) \in {"+", "-"}
        body == IF signed THEN Tail(tok) ELSE tok
    IN  IF body = <<>> \/ \E i \in 1..Len(body) : ~IsDigit(body[i])
        THEN [ok |-> FALSE, val |-> 0]
        ELSE [ok |-> TRUE,
              val |-> IF signed /\ Head(tok) = "-"
                      THEN 0 - DigitsValue(body, 0) ELSE DigitsValue(body, 0)]

\* strconv.Itoa
RECURSIVE Itoa(_)
Itoa(n) ==
    IF n < 0 THEN "-" \o Itoa(0 - n)
    ELSE IF n < 10 THEN Digits[n + 1]
    ELSE Itoa(n \div 10) \o Digits[(n % 10) + 1]

\* The range check letting the port 0 and the port 65536 through.
PortInRange_Inclusive(port) == ~(port < 0 \/ port > 65536)

PortInRange(port) == ~(port <= 0 \/ port >= 65536)

\* The loop of splitHostportStrings over the tokens: the first bad token
\* returns (nil, err).
RECURSIVE MapTokens(_, _)
MapTokens(toks, mapped) ==
    IF toks = <<>> THEN [ok |-> TRUE, ports |-> mapped]
    ELSE LET r == Atoi(Head(toks))
         IN  IF ~r.ok THEN [ok |-> FALSE, ports |-> <<>>]
             ELSE IF ~PortInRange(r.val) THEN [ok |-> FALSE, ports |-> <<>>]
             ELSE MapTokens(Tail(toks), Append(mapped, r.val))

splitHostportStrings(portsString) == MapTokens(Split(portsString), <<>>)

podPortToAnnotation(requestedPort) == annotationPrefix \o "/" \o Itoa(requestedPort)

podPortToServiceName(pod, requestedPort) == pod.Name \o "-" \o Itoa(requestedPort)

namespacedPodName(pod) == pod.Namespace \o "/" \o pod.Name

\* pod.Annotations[key] of a Go map: "" for a missing key.
AnnotationOf(pod, key) ==
    IF key \in DOMAIN pod.Annotations THEN pod.Annotations[key] ELSE ""

\* -------------------------------------------------------------------- state

VARIABLES
    pods,               \* cluster: PodIds -> the pod object, or its absence
    services,           \* cluster: the service objects
    endpoints,          \* cluster: the endpoints objects
    nodeAddr,           \* cluster: Nodes -> the node's Status.Addresses
    namespace,          \* KUBERNETES_NAMESPACE: "" is every namespace
    pc,                 \* where main() is
    handledPods,        \* podManagerRoutine's handledPods (the keys set true)
    cachedExternalIPs,  \* podManagerRoutine's cachedExternalIPs
    reaped,             \* times deleteStaleServices ran in this process run
    last,               \* what the last routine did: its input, steps, result
    calm,               \* since the process started: no failure injected, and
                        \* no step of the cluster's users
    envLeft,            \* steps the cluster's users may still take
    faultsLeft          \* failures that may still be injected

vars == <<pods, services, endpoints, nodeAddr, namespace, pc,
          handledPods, cachedExternalIPs, reaped, last, calm, envLeft, faultsLeft>>

cluster == <<pods, services, endpoints, nodeAddr>>

NoAnnotations == [k \in {} |-> ""]

AbsentPod ==
    [st |-> "absent", label |-> <<>>, phase |-> "Pending", ip |-> "",
     node |-> "node1", ann |-> NoAnnotations]

\* The pod object an event or a list carries.
PodObject(id, p) ==
    [Namespace |-> id[1], Name |-> id[2], Label |-> p.label, Phase |-> p.phase,
     PodIP |-> p.ip, NodeName |-> p.node, Annotations |-> p.ann]

InScope(ns) == namespace = "" \/ ns = namespace

NoRun == [kind |-> "none"]

\* podManagerRoutine panicked: at the Watch call, or at the object of an event.
Panic(at) == [kind |-> "panic", at |-> at]

Init ==
    /\ pods = [id \in PodIds |-> AbsentPod]
    /\ services = {}
    /\ endpoints = {}
    /\ nodeAddr = [n \in Nodes |-> WithExternal("1.1.1.1")]
    /\ namespace \in {"", "n1"}
    /\ pc = "main"
    /\ handledPods = {}
    /\ cachedExternalIPs = [n \in {} |-> ""]
    /\ reaped = 0
    /\ last = NoRun
    /\ calm = TRUE
    /\ envLeft = MaxEnvSteps
    /\ faultsLeft = MaxFaults

\* ------------------------------------------------- the routines of main.go

\* The state a routine reads and writes while it runs: the cluster objects,
\* the two maps of podManagerRoutine, the steps taken so far (API calls with
\* their results, and writes of handledPods) and the error it returns.
Ctx(trace) ==
    [pods |-> pods, services |-> services, endpoints |-> endpoints,
     handled |-> handledPods, cache |-> cachedExternalIPs,
     trace |-> trace, err |-> FALSE]

\* A step of a routine: call op on the object ns/name for the at-th item of
\* the routine's loop, and whether it succeeded.
Step(at, op, ns, name, ok) ==
    [at |-> at, op |-> op, ns |-> ns, name |-> name, ok |-> ok]

NoFault == [at |-> 0, op |-> "none"]

ApiCalls == {"CreateEndpoints", "GetNode", "CreateService", "PatchPod", "DeleteService"}

\* The failures that can be injected into a routine whose steps, when nothing
\* is injected, are trace: one of its calls that would have succeeded fails.
FaultsOf(trace) ==
    {[at |-> trace[i].at, op |-> trace[i].op] :
        i \in {j \in 1..Len(trace) : trace[j].op \in ApiCalls /\ trace[j].ok}}

\* The injected failure hits call op of the at-th item of the routine's loop.
Injected(fault, at, op) == fault.at = at /\ fault.op = op

UsedNodePorts(c) == {s.NodePort : s \in c.services}

\* The platform's choice of a node port: the lowest free one of its pool, 0
\* when none is left. (The controller only copies the number into the
\* annotation; which free port the platform takes changes no decision.)
AllocNodePort(c) ==
    LET free == NodePorts \ UsedNodePorts(c)
    IN  IF free = {} THEN 0
        ELSE CHOOSE p \in free : \A q \in free : p <= q

\* The first ExternalIP entry of node.Status.Addresses, 0 when there is none.
FirstExternal(addrs) ==
    IF \E i \in 1..Len(addrs) : addrs[i].Type = "ExternalIP"
    THEN CHOOSE i \in 1..Len(addrs) :
            /\ addrs[i].Type = "ExternalIP"
            /\ \A j \in 1..(i - 1) : addrs[j].Type # "ExternalIP"
    ELSE 0

\* getOrFetchExternalNodeIp asking the node at every call, whatever the cache
\* holds, and storing what it read.
getOrFetchExternalNodeIp_Always(c, at, nodeName, getFails) ==
    LET c1 == [c EXCEPT !.trace = Append(@, Step(at, "GetNode", "", nodeName, ~getFails))]
        k == FirstExternal(nodeAddr[nodeName])
    IN  IF getFails THEN [c |-> c1, ip |-> ""]
        ELSE IF k = 0 THEN [c |-> c1, ip |-> ""]
        ELSE [c |-> [c1 EXCEPT !.cache =
                       (nodeName :> nodeAddr[nodeName][k].Address) @@ @],
              ip |-> nodeAddr[nodeName][k].Address]

getOrFetchExternalNodeIp(c, at, nodeName, getFails) ==
    IF nodeName \in DOMAIN c.cache
    THEN [c |-> c, ip |-> c.cache[nodeName]]
    ELSE LET c1 == [c EXCEPT !.trace = Append(@, Step(at, "GetNode", "", nodeName, ~getFails))]
             k == FirstExternal(nodeAddr[nodeName])
         IN  IF getFails THEN [c |-> c1, ip |-> ""]
             ELSE IF k = 0 THEN [c |-> c1, ip |-> ""]
             ELSE [c |-> [c1 EXCEPT !.cache =
                            (nodeName :> nodeAddr[nodeName][k].Address) @@ @],
                   ip |-> nodeAddr[nodeName][k].Address]

\* addPodPortAnnotation taking the service and its endpoints back when the
\* patch fails.
addPodPortAnnotation_Rollback(c, pod, at, requestedPort, dynamicPort, patchFails) ==
    LET id == <<pod.Namespace, pod.Name>>
        name == podPortToServiceName(pod, requestedPort)
        ok == ~patchFails /\ c.pods[id].st = "live"
        c1 == [c EXCEPT !.trace = Append(@, Step(at, "PatchPod", pod.Namespace, pod.Name, ok))]
    IN  IF ~ok
        THEN [c1 EXCEPT
                !.err = TRUE,
                !.trace = Append(@, Step(at, "DeleteService", pod.Namespace, name, TRUE)),
                !.services = {s \in @ : ~(s.Namespace = pod.Namespace /\ s.Name = name)},
                !.endpoints = {e \in @ : ~(e.Namespace = pod.Namespace /\ e.Name = name)}]
        ELSE [c1 EXCEPT !.pods[id].ann =
                (podPortToAnnotation(requestedPort) :> Itoa(dynamicPort)) @@ @]

addPodPortAnnotation(c, pod, at, requestedPort, dynamicPort, patchFails) ==
    LET id == <<pod.Namespace, pod.Name>>
        ok == ~patchFails /\ c.pods[id].st = "live"
        c1 == [c EXCEPT !.trace = Append(@, Step(at, "PatchPod", pod.Namespace, pod.Name, ok))]
    IN  IF ~ok THEN [c1 EXCEPT !.err = TRUE]
        ELSE [c1 EXCEPT !.pods[id].ann =
                (podPortToAnnotation(requestedPort) :> Itoa(dynamicPort)) @@ @]

HasObject(objs, ns, name) == \E o \in objs : o.Namespace = ns /\ o.Name = name

\* The precheck of createService.
AlreadyAnnotated_Never(pod, requestedPort) == FALSE

AlreadyAnnotated(pod, requestedPort) ==
    AnnotationOf(pod, podPortToAnnotation(requestedPort)) # ""

\* Endpoints(pod.Namespace).Create: AlreadyExists when the namespace has an
\* endpoints object of that name.
CreateEndpoints(c, pod, at, requestedPort, fault) ==
    LET serviceName == podPortToServiceName(pod, requestedPort)
        ok == /\ ~Injected(fault, at, "CreateEndpoints")
              /\ ~HasObject(c.endpoints, pod.Namespace, serviceName)
        c1 == [c EXCEPT !.trace =
                 Append(@, Step(at, "CreateEndpoints", pod.Namespace, serviceName, ok))]
    IN  IF ~ok THEN [c1 EXCEPT !.err = TRUE]
        ELSE [c1 EXCEPT !.endpoints = @ \cup
                {[Namespace |-> pod.Namespace, Name |-> serviceName,
                  managedBy |-> managedByLabelValue, forPod |-> pod.Name,
                  IP |-> pod.PodIP, Port |-> requestedPort]}]

\* The service definition with the node's address, and
\* Services(pod.Namespace).Create: AlreadyExists when the namespace has a
\* service of that name.
CreateNodePortService(c, pod, at, requestedPort, fault) ==
    LET serviceName == podPortToServiceName(pod, requestedPort)
        got == getOrFetchExternalNodeIp(c, at, pod.NodeName, Injected(fault, at, "GetNode"))
        nodePort == AllocNodePort(got.c)
        ok == /\ ~Injected(fault, at, "CreateService")
              /\ ~HasObject(got.c.services, pod.Namespace, serviceName)
              /\ nodePort # 0
        c1 == [got.c EXCEPT !.trace =
                 Append(@, Step(at, "CreateService", pod.Namespace, serviceName, ok))]
    IN  IF ~ok THEN [c1 EXCEPT !.err = TRUE]
        ELSE [c1 EXCEPT !.services = @ \cup
                {[Namespace |-> pod.Namespace, Name |-> serviceName,
                  managedBy |-> managedByLabelValue, forPod |-> pod.Name,
                  ExternalIP |-> got.ip, Port |-> requestedPort,
                  NodePort |-> nodePort]}]

\* newService.Spec.Ports[0].NodePort of the service just created.
NodePortOf(c, ns, serviceName) ==
    (CHOOSE s \in c.services : s.Namespace = ns /\ s.Name = serviceName).NodePort

\* createService going on to the service when the endpoints were not created.
createService_NoAbort(c, pod, at, requestedPort, fault) ==
    IF AlreadyAnnotated(pod, requestedPort) THEN c
    ELSE LET c1 == CreateEndpoints(c, pod, at, requestedPort, fault)
             c2 == CreateNodePortService(c1, pod, at, requestedPort, fault)
         IN  IF c2.err THEN c2
             ELSE addPodPortAnnotation(
                      c2, pod, at, requestedPort,
                      NodePortOf(c2, pod.Namespace,
                                 podPortToServiceName(pod, requestedPort)),
                      Injected(fault, at, "PatchPod"))

createService(c, pod, at, requestedPort, fault) ==
    IF AlreadyAnnotated(pod, requestedPort) THEN c
    ELSE LET c1 == CreateEndpoints(c, pod, at, requestedPort, fault)
         IN  IF c1.err THEN c1
             ELSE LET c2 == CreateNodePortService(c1, pod, at, requestedPort, fault)
                  IN  IF c2.err THEN c2
                      ELSE addPodPortAnnotation(
                               c2, pod, at, requestedPort,
                               NodePortOf(c2, pod.Namespace,
                                          podPortToServiceName(pod, requestedPort)),
                               Injected(fault, at, "PatchPod"))

\* Services(namespace).Delete: NotFound when there is no such service; the
\* platform deletes the endpoints object of the same name with the service.
deleteService(c, at, ns, serviceName, deleteFails) ==
    LET ok == ~deleteFails /\ HasObject(c.services, ns, serviceName)
        c1 == [c EXCEPT !.trace = Append(@, Step(at, "DeleteService", ns, serviceName, ok))]
    IN  IF ~ok THEN [c1 EXCEPT !.err = TRUE]
        ELSE [c1 EXCEPT
                !.services = {s \in @ : ~(s.Namespace = ns /\ s.Name = serviceName)},
                !.endpoints = {e \in @ : ~(e.Namespace = ns /\ e.Name = serviceName)}]

\* The loop of deletePodServices from the at-th port on.
RECURSIVE DeleteLoop(_, _, _, _, _)
DeleteLoop(c, pod, requestedPorts, at, fault) ==
    IF at > Len(requestedPorts) THEN c
    ELSE LET c1 == deleteService(c, at, pod.Namespace,
                                 podPortToServiceName(pod, requestedPorts[at]),
                                 Injected(fault, at, "DeleteService"))
         IN  IF c1.err THEN c1
             ELSE DeleteLoop(c1, pod, requestedPorts, at + 1, fault)

deletePodServices(c, pod, fault) ==
    LET r == splitHostportStrings(pod.Label)
    IN  IF ~r.ok THEN [c EXCEPT !.err = TRUE]
        ELSE DeleteLoop(c, pod, r.ports, 1, fault)

\* The loop of handlePodEvent over the requested ports from the at-th on.
RECURSIVE CreateLoop(_, _, _, _, _)
CreateLoop(c, pod, requestedPorts, at, fault) ==
    IF at > Len(requestedPorts) THEN c
    ELSE LET c1 == createService(c, pod, at, requestedPorts[at], fault)
         IN  IF c1.err THEN c1
             ELSE CreateLoop(c1, pod, requestedPorts, at + 1, fault)

\* handledPods[namespacedPodName]
AlreadyHandled_Never(c, key) == FALSE

AlreadyHandled(c, key) == key \in c.handled

\* handledPods[namespacedPodName] = true
MarkHandled(c, key) ==
    [c EXCEPT !.handled = @ \cup {key},
              !.trace = Append(@, Step(0, "mark", "", key, TRUE))]

Unmark_Forgotten(c, key) ==
    [c EXCEPT !.trace = Append(@, Step(0, "unmark", "", key, TRUE))]

\* delete(handledPods, namespacedPodName)
Unmark(c, key) ==
    [c EXCEPT !.handled = @ \ {key},
              !.trace = Append(@, Step(0, "unmark", "", key, TRUE))]

\* pod.Status.PodIP == ""
HasNoIP(pod) == pod.PodIP = ""

NotRunning_Never(pod) == FALSE

\* pod.Status.Phase != v1.PodRunning
NotRunning(pod) == pod.Phase # "Running"

\* handlePodEvent with the mark moved behind the loop, made when every port
\* succeeded.
handlePodEvent_MarkOnSuccess(c, eventType, pod, fault) ==
    LET key == namespacedPodName(pod)
    IN  IF eventType = "DELETED"
        THEN deletePodServices(Unmark(c, key), pod, fault)
        ELSE IF AlreadyHandled(c, key) THEN c
        ELSE IF HasNoIP(pod) THEN c
        ELSE IF NotRunning(pod) THEN c
        ELSE LET r == splitHostportStrings(pod.Label)
                 done == CreateLoop(c, pod, r.ports, 1, fault)
             IN  IF ~r.ok THEN [c EXCEPT !.err = TRUE]
                 ELSE IF done.err THEN done
                 ELSE MarkHandled(done, key)

\* handlePodEvent with the mark moved before the parse of the label.
handlePodEvent_MarkFirst(c, eventType, pod, fault) ==
    LET key == namespacedPodName(pod)
    IN  IF eventType = "DELETED"
        THEN deletePodServices(Unmark(c, key), pod, fault)
        ELSE IF AlreadyHandled(c, key) THEN c
        ELSE IF HasNoIP(pod) THEN c
        ELSE IF NotRunning(pod) THEN c
        ELSE LET r == splitHostportStrings(pod.Label)
             IN  IF ~r.ok THEN [MarkHandled(c, key) EXCEPT !.err = TRUE]
                 ELSE CreateLoop(MarkHandled(c, key), pod, r.ports, 1, fault)

\* handlePodEvent taking the pod out of handledPods after its services were
\* deleted, when the deletes returned no error.
handlePodEvent_UnmarkLast(c, eventType, pod, fault) ==
    LET key == namespacedPodName(pod)
    IN  IF eventType = "DELETED"
        THEN LET c1 == deletePodServices(c, pod, fault)
             IN  IF c1.err THEN c1 ELSE Unmark(c1, key)
        ELSE IF AlreadyHandled(c, key) THEN c
        ELSE IF HasNoIP(pod) THEN c
        ELSE IF NotRunning(pod) THEN c
        ELSE LET r == splitHostportStrings(pod.Label)
             IN  IF ~r.ok THEN [c EXCEPT !.err = TRUE]
                 ELSE CreateLoop(MarkHandled(c, key), pod, r.ports, 1, fault)

handlePodEvent(c, eventType, pod, fault) ==
    LET key == namespacedPodName(pod)
    IN  IF eventType = "DELETED"
        THEN deletePodServices(Unmark(c, key), pod, fault)
        ELSE IF AlreadyHandled(c, key) THEN c
        ELSE IF HasNoIP(pod) THEN c
        ELSE IF NotRunning(pod) THEN c
        ELSE LET r == splitHostportStrings(pod.Label)
             IN  IF ~r.ok THEN [c EXCEPT !.err = TRUE]
                 ELSE CreateLoop(MarkHandled(c, key), pod, r.ports, 1, fault)

\* The items of a list call, in the order the call returns them.
RECURSIVE ListOrder(_)
ListOrder(objs) ==
    IF objs = {} THEN <<>>
    ELSE LET o == CHOOSE x \in objs : TRUE
         IN  <<o>> \o ListOrder(objs \ {o})

\* The loop of deleteStaleServices returning the error of the first delete
\* that fails.
RECURSIVE StaleLoop_ReturnsError(_, _, _, _, _)
StaleLoop_ReturnsError(c, podItems, serviceItems, at, fault) ==
    IF at > Len(serviceItems) THEN c
    ELSE LET service == serviceItems[at]
             foundPod == \E pod \in podItems :
                            pod.Name = service.forPod /\ pod.Namespace = service.Namespace
             c1 == IF foundPod THEN c
                   ELSE deleteService(c, at, service.Namespace, service.Name,
                                      Injected(fault, at, "DeleteService"))
         IN  IF c1.err THEN c1
             ELSE StaleLoop_ReturnsError(c1, podItems, serviceItems, at + 1, fault)

\* The loop of deleteStaleServices over services.Items from the at-th on; a
\* failed delete is logged and the loop goes on.
RECURSIVE StaleLoop(_, _, _, _, _)
StaleLoop(c, podItems, serviceItems, at, fault) ==
    IF at > Len(serviceItems) THEN c
    ELSE LET service == serviceItems[at]
             foundPod == \E pod \in podItems :
                            pod.Name = service.forPod /\ pod.Namespace = service.Namespace
             c1 == IF foundPod THEN c
                   ELSE [deleteService(c, at, service.Namespace, service.Name,
                                       Injected(fault, at, "DeleteService"))
                           EXCEPT !.err = FALSE]
         IN  StaleLoop(c1, podItems, serviceItems, at + 1, fault)

\* Pods(namespace).List with the marker label as selector; on an error the
\* client returns an empty list beside it.
ListPods(c, fails) ==
    IF fails THEN {}
    ELSE {PodObject(id, c.pods[id]) :
            id \in {i \in PodIds : c.pods[i].st = "live" /\ InScope(i[1])}}

ListServices(c) ==
    {s \in c.services : s.managedBy = managedByLabelValue /\ InScope(s.Namespace)}

\* podsFail, servicesFail: the list call fails; fault: a delete that fails.
deleteStaleServices(c, podsFail, servicesFail, fault) ==
    LET podItems == ListPods(c, podsFail)
        c1 == [c EXCEPT !.trace = Append(@, Step(0, "ListPods", namespace, "", ~podsFail))]
        c2 == [c1 EXCEPT !.trace =
                 Append(@, Step(0, "ListServices", namespace, "", ~servicesFail))]
    IN  IF servicesFail THEN [c2 EXCEPT !.err = TRUE]
        ELSE StaleLoop(c2, podItems, ListOrder(ListServices(c)), 1, fault)

\* ------------------------------------------------------------------ actions

Bit(b) == IF b THEN 1 ELSE 0

\* Pods whose Deleted event the open subscription has not delivered are
\* forgotten when the subscription ends.
DropUndelivered(ps) ==
    [id \in PodIds |-> IF ps[id].st = "gone" THEN AbsentPod ELSE ps[id]]

\* main: serviceManagerRoutine, which panics on an error of the pass.
ServiceManagerRoutine ==
    /\ pc = "main"
    /\ \E podsFail \in BOOLEAN, servicesFail \in BOOLEAN :
       \E fault \in {NoFault} \cup
                    FaultsOf(deleteStaleServices(Ctx(<<>>), podsFail, servicesFail,
                                                 NoFault).trace) :
         LET c == deleteStaleServices(Ctx(<<>>), podsFail, servicesFail, fault)
             used == Bit(podsFail) + Bit(servicesFail) + Bit(fault # NoFault)
         IN  /\ used <= faultsLeft
             /\ faultsLeft' = faultsLeft - used
             /\ calm' = (calm /\ used = 0)
             /\ services' = c.services
             /\ endpoints' = c.endpoints
             /\ last' = [kind |-> "reaper", podsFail |-> podsFail,
                         servicesFail |-> servicesFail, trace |-> c.trace,
                         err |-> c.err]
             /\ pc' = IF c.err THEN "dead" ELSE "open"
    /\ reaped' = reaped + 1
    /\ UNCHANGED <<pods, nodeAddr, namespace, handledPods,
                   cachedExternalIPs, envLeft>>

\* podManagerRoutine: Pods(namespace).Watch succeeds and the loop ranges over
\* the new subscription's events.
OpenWatch ==
    /\ pc = "open"
    /\ pc' = "watch"
    /\ last' = NoRun
    /\ UNCHANGED <<cluster, namespace, handledPods, cachedExternalIPs,
                   reaped, calm, envLeft, faultsLeft>>

\* podManagerRoutine: Pods(namespace).Watch fails, and the routine panics.
OpenWatchFails ==
    /\ pc = "open"
    /\ faultsLeft > 0
    /\ faultsLeft' = faultsLeft - 1
    /\ calm' = FALSE
    /\ pc' = "dead"
    /\ last' = Panic("Watch")
    /\ UNCHANGED <<cluster, namespace, handledPods, cachedExternalIPs,
                   reaped, envLeft>>

EventTypes == {"ADDED", "MODIFIED", "DELETED"}

\* podManagerRoutine: one event of the subscription is taken and handled; an
\* error of handlePodEvent is logged. An Added or Modified event carries the
\* pod as it is (or as it last was, when the pod is deleted and its Deleted
\* event is still to come); the Deleted event carries the pod as it last was.
HandleEvent(eventType, id) ==
    /\ pc = "watch"
    /\ InScope(id[1])
    /\ IF eventType = "DELETED" THEN pods[id].st = "gone"
       ELSE pods[id].st \in {"live", "gone"}
    /\ \E fault \in {NoFault} \cup
                  (IF faultsLeft = 0 THEN {}
                   ELSE FaultsOf(handlePodEvent(Ctx(<<>>), eventType,
                                                PodObject(id, pods[id]), NoFault).trace)) :
       LET pod == PodObject(id, pods[id])
           c == handlePodEvent(Ctx(<<>>), eventType, pod, fault)
       IN  /\ faultsLeft' = faultsLeft - Bit(fault # NoFault)
           /\ calm' = (calm /\ fault = NoFault)
           /\ pods' = IF eventType = "DELETED"
                      THEN [c.pods EXCEPT ![id] = AbsentPod] ELSE c.pods
           /\ services' = c.services
           /\ endpoints' = c.endpoints
           /\ handledPods' = c.handled
           /\ cachedExternalIPs' = c.cache
           /\ last' = [kind |-> "event", deleted |-> eventType = "DELETED", pod |-> pod,
                       wasHandled |-> namespacedPodName(pod) \in handledPods,
                       trace |-> c.trace, err |-> c.err]
    /\ UNCHANGED <<nodeAddr, namespace, pc, reaped, envLeft>>

\* The outer loop going back to the stale-service pass when the subscription's
\* channel is closed.
Resubscribe_ReapsAgain ==
    /\ pc = "watch"
    /\ pc' = "main"
    /\ pods' = DropUndelivered(pods)
    /\ last' = NoRun
    /\ UNCHANGED <<services, endpoints, nodeAddr, namespace, handledPods,
                   cachedExternalIPs, reaped, calm, envLeft, faultsLeft>>

\* podManagerRoutine: the subscription's channel is closed (its timeout, or
\* the connection), "Restart loop" is logged, the outer loop goes round and
\* Pods(namespace).Watch opens the next subscription.
Resubscribe ==
    /\ pc = "watch"
    /\ pc' = "watch"
    /\ pods' = DropUndelivered(pods)
    /\ last' = NoRun
    /\ UNCHANGED <<services, endpoints, nodeAddr, namespace, handledPods,
                   cachedExternalIPs, reaped, calm, envLeft, faultsLeft>>

\* The same, but Pods(namespace).Watch fails and the routine panics.
ResubscribeFails ==
    /\ pc = "watch"
    /\ faultsLeft > 0
    /\ faultsLeft' = faultsLeft - 1
    /\ calm' = FALSE
    /\ pc' = "dead"
    /\ pods' = DropUndelivered(pods)
    /\ last' = Panic("Watch")
    /\ UNCHANGED <<services, endpoints, nodeAddr, namespace, handledPods,
                   cachedExternalIPs, reaped, envLeft>>

\* podManagerRoutine: the subscription delivers an object that is no pod (an
\* Error event carries a Status), and the routine panics.
UnexpectedObject ==
    /\ pc = "watch"
    /\ faultsLeft > 0
    /\ faultsLeft' = faultsLeft - 1
    /\ calm' = FALSE
    /\ pc' = "dead"
    /\ pods' = DropUndelivered(pods)
    /\ last' = Panic("Object")
    /\ UNCHANGED <<services, endpoints, nodeAddr, namespace, handledPods,
                   cachedExternalIPs, reaped, envLeft>>

\* The process is killed while handlePodEvent runs, before the call `stop` of
\* the event's routine is issued: the calls before it have taken effect, the
\* rest of the routine never runs, and the maps die with the process. (Up to
\* the call the routine does what it does when that call fails: it has no
\* step between a failed call and its return.)
KillDuringEvent(eventType, id) ==
    /\ pc = "watch"
    /\ faultsLeft > 0
    /\ faultsLeft' = faultsLeft - 1
    /\ calm' = FALSE
    /\ InScope(id[1])
    /\ IF eventType = "DELETED" THEN pods[id].st = "gone"
       ELSE pods[id].st \in {"live", "gone"}
    /\ \E stop \in {f \in FaultsOf(handlePodEvent(Ctx(<<>>), eventType,
                                                  PodObject(id, pods[id]), NoFault).trace) :
                        f.op # "GetNode"} :
       LET c == handlePodEvent(Ctx(<<>>), eventType, PodObject(id, pods[id]), stop)
       IN  /\ pods' = DropUndelivered(c.pods)
           /\ services' = c.services
           /\ endpoints' = c.endpoints
    /\ pc' = "dead"
    /\ handledPods' = {}
    /\ cachedExternalIPs' = [n \in {} |-> ""]
    /\ last' = [kind |-> "killed", deleted |-> eventType = "DELETED",
                pod |-> PodObject(id, pods[id])]
    /\ UNCHANGED <<nodeAddr, namespace, reaped, envLeft>>

\* The process is started again after it ended (a panic, a kill), or is
\* killed between two routines and started again: main runs from its start
\* with new, empty maps.
Restart ==
    /\ pc' = "main"
    /\ calm' = TRUE
    /\ handledPods' = {}
    /\ cachedExternalIPs' = [n \in {} |-> ""]
    /\ reaped' = 0
    /\ pods' = DropUndelivered(pods)
    /\ last' = NoRun
    /\ UNCHANGED <<services, endpoints, nodeAddr, namespace, envLeft, faultsLeft>>

\* --- the cluster's users

PodCreate(id, label, status) ==
    /\ envLeft > 0
    /\ pods[id].st = "absent"
    /\ Cardinality({i \in PodIds : pods[i].st # "absent"}) < MaxPods
    /\ pods' = [pods EXCEPT ![id] =
                  [st |-> "live", label |-> label, phase |-> status.phase, ip |-> status.ip,
                   node |-> "node1", ann |-> NoAnnotations]]
    /\ envLeft' = envLeft - 1
    /\ calm' = FALSE
    /\ last' = NoRun
    /\ UNCHANGED <<services, endpoints, nodeAddr, namespace, pc,
                   handledPods, cachedExternalIPs, reaped, faultsLeft>>

PodStatusUpdate(id, status) ==
    /\ envLeft > 0
    /\ pods[id].st = "live"
    /\ <<status.phase, status.ip>> # <<pods[id].phase, pods[id].ip>>
    /\ pods' = [pods EXCEPT ![id].phase = status.phase, ![id].ip = status.ip]
    /\ envLeft' = envLeft - 1
    /\ calm' = FALSE
    /\ last' = NoRun
    /\ UNCHANGED <<services, endpoints, nodeAddr, namespace, pc,
                   handledPods, cachedExternalIPs, reaped, faultsLeft>>

PodRelabel(id, label) ==
    /\ envLeft > 0
    /\ pods[id].st = "live"
    /\ label # pods[id].label
    /\ pods' = [pods EXCEPT ![id].label = label]
    /\ envLeft' = envLeft - 1
    /\ calm' = FALSE
    /\ last' = NoRun
    /\ UNCHANGED <<services, endpoints, nodeAddr, namespace, pc,
                   handledPods, cachedExternalIPs, reaped, faultsLeft>>

\* A pod deleted while a subscription that covers it is open gets a Deleted
\* event; otherwise no event ever tells of it.
PodDelete(id) ==
    /\ envLeft > 0
    /\ pods[id].st = "live"
    /\ pods' = [pods EXCEPT ![id] =
                  IF pc = "watch" /\ InScope(id[1])
                  THEN [@ EXCEPT !.st = "gone"] ELSE AbsentPod]
    /\ envLeft' = envLeft - 1
    /\ calm' = FALSE
    /\ last' = NoRun
    /\ UNCHANGED <<services, endpoints, nodeAddr, namespace, pc,
                   handledPods, cachedExternalIPs, reaped, faultsLeft>>

NodeUpdate(n, status) ==
    /\ envLeft > 0
    /\ nodeAddr[n] # status
    /\ nodeAddr' = [nodeAddr EXCEPT ![n] = status]
    /\ envLeft' = envLeft - 1
    /\ calm' = FALSE
    /\ last' = NoRun
    /\ UNCHANGED <<pods, services, endpoints, namespace, pc,
                   handledPods, cachedExternalIPs, reaped, faultsLeft>>

Next ==
    \/ ServiceManagerRoutine
    \/ OpenWatch
    \/ OpenWatchFails
    \/ \E t \in EventTypes, id \in PodIds : HandleEvent(t, id)
    \/ Resubscribe
    \/ ResubscribeFails
    \/ UnexpectedObject
    \/ \E t \in EventTypes, id \in PodIds : KillDuringEvent(t, id)
    \/ Restart
    \/ \E id \in PodIds, label \in Labels, status \in PodStatuses :
          PodCreate(id, label, status)
    \/ \E id \in PodIds, status \in PodStatuses : PodStatusUpdate(id, status)
    \/ \E id \in PodIds, label \in Labels : PodRelabel(id, label)
    \/ \E id \in PodIds : PodDelete(id)

\* The controller in a cluster whose nodes keep their addresses.
Spec == Init /\ [][Next]_vars

NextNodes ==
    \/ Next
    \/ \E n \in Nodes, status \in NodeStatuses : NodeUpdate(n, status)

\* The process configured for the namespace n1.
InitNodes == Init /\ namespace = "n1"

\* The controller of one namespace in a cluster whose nodes' addresses change.
SpecNodes == InitNodes /\ [][NextNodes]_vars

\* --- splitHostportStrings on its own

\* Tokens of a label value, each with what it is: whether it is a decimal
\* number (digits, with or without a sign, as strconv.Atoi reads them) and
\* which.
Token(text, numeric, value) == [text |-> text, numeric |-> numeric, value |-> value]

TokenTable ==
    {Token(<<>>, FALSE, 0),
     Token(<<"x">>, FALSE, 0),
     Token(<<"8", "x">>, FALSE, 0),
     Token(<<" ", "8">>, FALSE, 0),
     Token(<<"-">>, FALSE, 0),
     Token(<<"0">>, TRUE, 0),
     Token(<<"-", "5">>, TRUE, 0 - 5),
     Token(<<"1">>, TRUE, 1),
     Token(<<"8", "0">>, TRUE, 80),
     Token(<<"0", "8", "0">>, TRUE, 80),
     Token(<<"+", "8", "1">>, TRUE, 81),
     Token(<<"6", "5", "5", "3", "5">>, TRUE, 65535),
     Token(<<"6", "5", "5", "3", "6">>, TRUE, 65536)}

TokenLists == UNION {[1..n -> TokenTable] : n \in 1..MaxTokens}

\* The label value whose tokens are toks: the texts with a dot between them.
RECURSIVE Join(_)
Join(toks) ==
    IF Len(toks) = 1 THEN toks[1].text
    ELSE toks[1].text \o <<".">> \o Join(Tail(toks))

\* A label value is about to be parsed.
InitParse ==
    /\ pods = [id \in PodIds |-> AbsentPod]
    /\ services = {}
    /\ endpoints = {}
    /\ nodeAddr = [n \in Nodes |-> WithExternal("1.1.1.1")]
    /\ namespace = ""
    /\ pc = "parse"
    /\ handledPods = {}
    /\ cachedExternalIPs = [n \in {} |-> ""]
    /\ reaped = 0
    /\ \E toks \in TokenLists : last = [kind |-> "label", tokens |-> toks]
    /\ calm = TRUE
    /\ envLeft = MaxEnvSteps
    /\ faultsLeft = MaxFaults

ParseLabel ==
    /\ pc = "parse"
    /\ last.kind = "label"
    /\ last' = [kind |-> "parsed", tokens |-> last.tokens,
                result |-> splitHostportStrings(Join(last.tokens))]
    /\ UNCHANGED <<pods, services, endpoints, nodeAddr, namespace, pc, handledPods,
                   cachedExternalIPs, reaped, calm, envLeft, faultsLeft>>

NextParse == ParseLabel

\* splitHostportStrings applied to label values.
SpecParse == InitParse /\ [][NextParse]_vars

\* ------------------------------------------------------------------- claims

\* The positions of the calls op among a routine's steps.
Idx(trace, op) == {i \in 1..Len(trace) : trace[i].op = op}

\* The objects ns/name the calls op of a routine were issued for.
Targets(trace, op) == {<<trace[i].ns, trace[i].name>> : i \in Idx(trace, op)}

IsEvent == last.kind = "event"

IsAddedOrModified == IsEvent /\ ~last.deleted

IsDeleted == IsEvent /\ last.deleted

Eligible(pod) == pod.PodIP # "" /\ pod.Phase = "Running"

Requested(pod) == splitHostportStrings(pod.Label)

Distinct(seq) == \A i, j \in 1..Len(seq) : seq[i] = seq[j] => i = j

\* <workloadName>-<port>
DerivedName(pod, port) == pod.Name \o "-" \o Itoa(port)

DerivedNames(pod) ==
    {<<pod.Namespace, DerivedName(pod, Requested(pod).ports[k])>> :
        k \in 1..Len(Requested(pod).ports)}

DiscoveryKey(port) == "dynamic-hostports.k8s/" \o Itoa(port)

Annotated(pod, port) ==
    DiscoveryKey(port) \in DOMAIN pod.Annotations /\ pod.Annotations[DiscoveryKey(port)] # ""

IdOf(pod) == <<pod.Namespace, pod.Name>>

KeyOf(pod) == pod.Namespace \o "/" \o pod.Name

AllCallsSucceeded == \A i \in 1..Len(last.trace) : last.trace[i].ok

\* The pod of the cluster has, for each port it requests, the endpoints and
\* the service <name>-<port> and a discovery annotation that holds the
\* service's node port.
Exposed(id) ==
    LET pod == PodObject(id, pods[id])
        ports == Requested(pod).ports
    IN  \A k \in 1..Len(ports) :
          /\ Cardinality({e \in endpoints : e.Namespace = id[1]
                            /\ e.Name = DerivedName(pod, ports[k])}) = 1
          /\ Cardinality({s \in services : s.Namespace = id[1]
                            /\ s.Name = DerivedName(pod, ports[k])}) = 1
          /\ \E s \in services :
                /\ s.Namespace = id[1] /\ s.Name = DerivedName(pod, ports[k])
                /\ DiscoveryKey(ports[k]) \in DOMAIN pods[id].ann
                /\ pods[id].ann[DiscoveryKey(ports[k])] = Itoa(s.NodePort)

\* C1. An Added or Modified event for a running pod with an IP, a valid list
\* of n distinct ports, no discovery annotation and not in handledPods, all of
\* whose API calls succeed, creates exactly the n endpoints and the n services
\* <name>-<port> in the pod's namespace and patches the pod n times, once per
\* port, after which the pod has its endpoints, services and annotations and
\* is in handledPods; an Added or Modified event for a pod that is in
\* handledPods issues no call at all.
C1_ExposeOnce ==
    IsAddedOrModified =>
      LET pod == last.pod
          t == last.trace
          n == Len(Requested(pod).ports)
      IN  /\ ( /\ ~last.wasHandled
               /\ Eligible(pod)
               /\ Requested(pod).ok
               /\ Distinct(Requested(pod).ports)
               /\ \A k \in 1..n : ~Annotated(pod, Requested(pod).ports[k])
               /\ AllCallsSucceeded )
             => /\ ~last.err
                /\ Cardinality(Idx(t, "CreateEndpoints")) = n
                /\ Cardinality(Idx(t, "CreateService")) = n
                /\ Cardinality(Idx(t, "PatchPod")) = n
                /\ Targets(t, "CreateEndpoints") = DerivedNames(pod)
                /\ Targets(t, "CreateService") = DerivedNames(pod)
                /\ Targets(t, "PatchPod") \subseteq {IdOf(pod)}
                /\ {t[i].at : i \in Idx(t, "PatchPod")} = 1..n
                /\ Idx(t, "DeleteService") = {}
                /\ Exposed(IdOf(pod))
                /\ KeyOf(pod) \in handledPods
          /\ last.wasHandled => (t = <<>> /\ ~last.err)

\* C1 witness: the event of a pod that a creation pass has fully exposed on
\* two ports is delivered again.
C1_Witness ==
    /\ IsAddedOrModified
    /\ last.wasHandled
    /\ Len(Requested(last.pod).ports) = 2
    /\ pods[IdOf(last.pod)].st = "live"
    /\ Exposed(IdOf(last.pod))
    /\ Cardinality(services) = 2
    /\ Cardinality(endpoints) = 2

\* C2. A Deleted event for a pod with a valid port list, all of whose delete
\* calls succeed, issues a service delete for the names <name>-<port> of the
\* label's ports, in the label's order, and no other call; afterwards those
\* services are gone and the pod is not in handledPods.
C2_RetractOnDelete ==
    (IsDeleted /\ Requested(last.pod).ok /\ AllCallsSucceeded) =>
      LET pod == last.pod
          t == last.trace
          ports == Requested(pod).ports
          calls == SelectSeq(t, LAMBDA s : s.op # "unmark")
      IN  /\ ~last.err
          /\ Len(calls) = Len(ports)
          /\ \A k \in 1..Len(ports) :
                /\ calls[k].op = "DeleteService"
                /\ calls[k].ns = pod.Namespace
                /\ calls[k].name = DerivedName(pod, ports[k])
          /\ \A s \in services : <<s.Namespace, s.Name>> \notin DerivedNames(pod)
          /\ KeyOf(pod) \notin handledPods

\* C2 witness: the Deleted event of a handled pod has deleted its two services.
C2_Witness ==
    /\ IsDeleted
    /\ last.wasHandled
    /\ ~last.err
    /\ Cardinality(Idx(last.trace, "DeleteService")) = 2

Live(id) == pods[id].st = "live"

\* The managed services of the scope whose for-pod label names no live pod of
\* the service's namespace.
StaleServices ==
    {s \in services :
        /\ InScope(s.Namespace)
        /\ ~\E id \in PodIds : Live(id) /\ id[1] = s.Namespace /\ id[2] = s.forPod}

\* C3. A reaper pass that gets the list of the managed services issues a
\* delete for exactly the services whose for-pod label is the name of no live
\* pod of the service's namespace; the service of a live pod of the same
\* namespace is never deleted by it.
C3_ReaperDeletesExactlyStale ==
    [][(pc = "main" /\ last'.kind = "reaper" /\ ~last'.servicesFail)
         => Targets(last'.trace, "DeleteService")
              = {<<s.Namespace, s.Name>> : s \in StaleServices}]_vars

\* Every live pod of the scope that is running with an IP and a valid port
\* list has had its event handled by this process.
AllRedelivered ==
    \A id \in PodIds :
        (/\ Live(id) /\ InScope(id[1])
         /\ Eligible(PodObject(id, pods[id]))
         /\ Requested(PodObject(id, pods[id])).ok) => (id[1] \o "/" \o id[2]) \in handledPods

Converged ==
    /\ \A id \in PodIds :
        (/\ Live(id) /\ InScope(id[1])
         /\ Eligible(PodObject(id, pods[id]))
         /\ Requested(PodObject(id, pods[id])).ok) => Exposed(id)
    /\ \A s \in services :
         \E id \in PodIds : Live(id) /\ id[1] = s.Namespace /\ id[2] = s.forPod

\* C4. After a start of the process (whatever the process before it had done
\* when it ended), once the reaper pass has run and the event of every live
\* pod has been handled, with no failure injected and no change by the
\* cluster's users since that start: every live running pod with an IP and a
\* valid port list has one service, one endpoints object and one discovery
\* annotation per requested port, and every service has a live owner.
C4_ConvergesAfterRestart ==
    (calm /\ pc = "watch" /\ reaped = 1 /\ AllRedelivered) => Converged

\* C5. In a creation pass, a port whose discovery annotation the event's pod
\* carries gets no call at all (no endpoints create, no node lookup, no
\* service create, no patch), and the pass goes on: the next port that lacks
\* its annotation gets its endpoints create, and a pass all of whose ports
\* carry their annotation returns no error.
C5_PrecheckSkips ==
    (IsAddedOrModified /\ ~last.wasHandled /\ Eligible(last.pod)
       /\ Requested(last.pod).ok) =>
      LET pod == last.pod
          t == last.trace
          ports == Requested(pod).ports
          n == Len(ports)
          Reached(k) == \A i \in 1..Len(t) :
                           (t[i].at \in 1..(k - 1) /\ t[i].op # "GetNode") => t[i].ok
      IN  /\ \A k \in 1..n :
                Annotated(pod, ports[k]) =>
                  /\ \A i \in 1..Len(t) : t[i].at # k
                  /\ (k < n /\ Reached(k) /\ ~Annotated(pod, ports[k + 1])) =>
                        \E i \in 1..Len(t) :
                            t[i].at = k + 1 /\ t[i].op = "CreateEndpoints"
          /\ (\A k \in 1..n : Annotated(pod, ports[k])) =>
                (~last.err /\ Len(t) = 1 /\ t[1].op = "mark")

\* C5 witness: a pass skips the first port, which carries its annotation, and
\* creates the endpoints of the second.
C5_Witness ==
    /\ IsAddedOrModified
    /\ ~last.wasHandled
    /\ Requested(last.pod).ok
    /\ Len(Requested(last.pod).ports) = 2
    /\ Annotated(last.pod, Requested(last.pod).ports[1])
    /\ \E i \in 1..Len(last.trace) :
          last.trace[i].at = 2 /\ last.trace[i].op = "CreateEndpoints"

FailedCreation(step) ==
    step.op \in {"CreateEndpoints", "CreateService", "PatchPod"} /\ ~step.ok

C6_Pass ==
    IsAddedOrModified =>
      LET t == last.trace
      IN  /\ t # <<>> => (t[1].op = "mark" /\ \A i \in 2..Len(t) : t[i].op \in ApiCalls)
          /\ \A i \in 1..Len(t) :
                FailedCreation(t[i]) =>
                  (last.err /\ i = Len(t) /\ KeyOf(last.pod) \in handledPods)
          /\ last.wasHandled => t = <<>>

C6_Stays ==
    \A key \in handledPods :
        key \notin handledPods' =>
          \/ last'.kind = "event" /\ last'.deleted /\ KeyOf(last'.pod) = key
          \/ pc' \in {"main", "dead"} /\ handledPods' = {}

\* C6. The pod is put in handledPods before the first call of its creation
\* pass; a failed endpoints create, service create or patch returns the
\* error as the last step of the pass (no call for a later port) with the pod
\* in handledPods; an Added or Modified event for a pod in handledPods issues
\* no call; and a pod leaves handledPods only when a Deleted event for it is
\* handled (or when the process ends, and the map with it).
C6_AtMostOneAttempt == [](C6_Pass) /\ [][C6_Stays]_vars

\* C6 witness: the service create of the first of two ports failed; the pass
\* ended there and the pod is handled.
C6_Witness ==
    /\ IsAddedOrModified
    /\ last.err
    /\ last.trace # <<>>
    /\ Len(Requested(last.pod).ports) = 2
    /\ last.trace[Len(last.trace)].op = "CreateService"
    /\ last.trace[Len(last.trace)].at = 1
    /\ KeyOf(last.pod) \in handledPods

\* C7. In every pass the service create of a port comes after a successful
\* endpoints create of the same name, and a failed endpoints create is the
\* last step of the pass (no node lookup, service create or patch follows);
\* so every service has its endpoints object.
C7_EndpointsBeforeService ==
    /\ IsAddedOrModified =>
         LET t == last.trace
         IN  /\ \A j \in Idx(t, "CreateService") :
                   \E i \in 1..(j - 1) :
                      /\ t[i].op = "CreateEndpoints" /\ t[i].ok
                      /\ t[i].at = t[j].at /\ t[i].ns = t[j].ns /\ t[i].name = t[j].name
             /\ \A i \in Idx(t, "CreateEndpoints") :
                   ~t[i].ok => (i = Len(t) /\ last.err)
    /\ \A s \in services : HasObject(endpoints, s.Namespace, s.Name)

\* C7 witness: the endpoints create of the second port failed after the first
\* port got its service.
C7_Witness ==
    /\ IsAddedOrModified
    /\ last.err
    /\ last.trace # <<>>
    /\ last.trace[Len(last.trace)].op = "CreateEndpoints"
    /\ last.trace[Len(last.trace)].at = 2
    /\ Idx(last.trace, "CreateService") # {}

\* C8. An Added or Modified event for a running pod with an IP, not in
\* handledPods, whose label does not parse returns an error, issues no call,
\* leaves the pod out of handledPods and the loop in its subscription; with
\* a label that parses, the event of such a pod starts the creation pass (the
\* mark, then the first port that lacks its annotation).
C8_MalformedList ==
    (IsAddedOrModified /\ ~last.wasHandled /\ Eligible(last.pod)) =>
      LET pod == last.pod
          t == last.trace
      IN  IF ~Requested(pod).ok
          THEN /\ last.err
               /\ t = <<>>
               /\ KeyOf(pod) \notin handledPods
               /\ pc = "watch"
          ELSE /\ t # <<>>
               /\ t[1].op = "mark"
               /\ KeyOf(pod) \in handledPods
               /\ ~Annotated(pod, Requested(pod).ports[1]) =>
                     (/\ Len(t) >= 2
                      /\ t[2].op = "CreateEndpoints"
                      /\ t[2].name = DerivedName(pod, Requested(pod).ports[1]))

\* C8 witness: an event is rejected for its label, whose first token is valid.
C8_Witness ==
    /\ IsAddedOrModified
    /\ ~last.wasHandled
    /\ Eligible(last.pod)
    /\ ~Requested(last.pod).ok
    /\ Atoi(Split(last.pod.Label)[1]).ok
    /\ last.err

\* C9. The step that handles an Added or Modified event for a pod with an
\* empty IP, or not running, or in handledPods, changes neither handledPods
\* nor the cache nor any object of the cluster, issues no call and returns
\* no error.
C9_NoOpEvents ==
    [][(/\ last'.kind = "event"
        /\ ~last'.deleted
        /\ \/ last'.pod.PodIP = ""
           \/ last'.pod.Phase # "Running"
           \/ last'.wasHandled)
         => /\ UNCHANGED <<handledPods, cachedExternalIPs, pods, services,
                           endpoints, nodeAddr>>
            /\ last'.trace = <<>>
            /\ ~last'.err]_vars

\* C9 witness: the event of a pod that has an IP, a valid list and is not
\* handled, but is not running, has been handled.
C9_Witness ==
    /\ IsAddedOrModified
    /\ ~last.wasHandled
    /\ last.pod.PodIP # ""
    /\ last.pod.Phase # "Running"
    /\ Requested(last.pod).ok
    /\ last.trace = <<>>

C10_Pass ==
    IsAddedOrModified =>
      LET t == last.trace
          pod == last.pod
      IN  \A i \in Idx(t, "PatchPod") :
            ~t[i].ok =>
              /\ last.err
              /\ i = Len(t)
              /\ Idx(t, "DeleteService") = {}
              /\ HasObject(services, pod.Namespace,
                           DerivedName(pod, Requested(pod).ports[t[i].at]))
              /\ HasObject(endpoints, pod.Namespace,
                           DerivedName(pod, Requested(pod).ports[t[i].at]))

\* A derived object goes only in a reaper pass or while the Deleted event of
\* its owner is handled.
C10_Remain ==
    \A o \in services \cup endpoints :
        (o \notin services' /\ o \notin endpoints') =>
          \/ last'.kind = "reaper"
          \/ /\ last'.kind \in {"event", "killed"}
             /\ last'.deleted
             /\ IdOf(last'.pod) = <<o.Namespace, o.forPod>>

\* C10. When the patch of a port fails after its endpoints and service were
\* created, the pass returns the error there, issues no delete, and the
\* service and the endpoints exist after it; they are removed only by the
\* handling of a Deleted event for their pod or by a reaper pass.
C10_PatchFailureKeepsObjects == [](C10_Pass) /\ [][C10_Remain]_vars

\* C10 witness: the patch of the second port failed; both services exist.
C10_Witness ==
    /\ IsAddedOrModified
    /\ last.err
    /\ last.trace # <<>>
    /\ last.trace[Len(last.trace)].op = "PatchPod"
    /\ last.trace[Len(last.trace)].at = 2
    /\ Cardinality(services) = 2
    /\ Cardinality(endpoints) = 2

\* The first position of a set of positions of a trace, 0 when it is empty.
FirstOf(positions) ==
    IF positions = {} THEN 0
    ELSE CHOOSE i \in positions : \A j \in positions : i <= j

\* The query of the node at a position of a pass failed, or the node it read
\* has no ExternalIP entry.
NegativeLookup(t, i, node) ==
    t[i].op = "GetNode" /\ (~t[i].ok \/ FirstExternal(nodeAddr[node]) = 0)

C11_NoEmptyEntry ==
    \A n \in DOMAIN cachedExternalIPs : cachedExternalIPs[n] # ""

C11_Lookup ==
    (last'.kind = "event" /\ ~last'.deleted) =>
      LET t == last'.trace
          pod == last'.pod
          node == pod.NodeName
          gets == Idx(t, "GetNode")
          exposures == {j \in Idx(t, "CreateEndpoints") : t[j].ok}
          Queried(j) == \E k \in gets : t[k].at = t[j].at
      IN  /\ \A i \in gets :
                NegativeLookup(t, i, node) =>
                  /\ \A s \in services' :
                        (/\ s.Namespace = pod.Namespace
                         /\ s.Name = DerivedName(pod, Requested(pod).ports[t[i].at])
                         /\ s \notin services) => s.ExternalIP = ""
                  /\ LET next == FirstOf({j \in exposures : j > i})
                     IN  next # 0 => Queried(next)
          /\ (gets # {} /\ \A i \in gets : NegativeLookup(t, i, node)) =>
                node \notin DOMAIN cachedExternalIPs'
          /\ (node \notin DOMAIN cachedExternalIPs /\ exposures # {}) =>
                Queried(FirstOf(exposures))

\* C11. A lookup of a node that fails, or that finds no ExternalIP entry,
\* returns the empty address (the service gets no external address), leaves
\* the cache without an entry for the node, and the next exposure of a port on
\* that node queries the node again; and in every state no entry of the cache
\* holds the empty address.
C11_NegativeNeverStored == [](C11_NoEmptyEntry) /\ [][C11_Lookup]_vars

\* The services a step of the loop created for the ports from the at-th on.
CreatedFrom(pod, at) ==
    {s \in services' \ services :
        /\ s.Namespace = pod.Namespace
        /\ \E k \in at..Len(Requested(pod).ports) :
              s.Name = DerivedName(pod, Requested(pod).ports[k])}

C12_Lookup ==
    (last'.kind = "event" /\ ~last'.deleted) =>
      LET t == last'.trace
          pod == last'.pod
          node == pod.NodeName
          gets == Idx(t, "GetNode")
      IN  /\ node \in DOMAIN cachedExternalIPs =>
                /\ gets = {}
                /\ \A s \in CreatedFrom(pod, 1) : s.ExternalIP = cachedExternalIPs[node]
          /\ \A i \in gets :
                (t[i].ok /\ FirstExternal(nodeAddr[node]) # 0) =>
                  LET address == nodeAddr[node][FirstExternal(nodeAddr[node])].Address
                  IN  /\ \A j \in gets : j <= i
                      /\ node \in DOMAIN cachedExternalIPs'
                      /\ cachedExternalIPs'[node] = address
                      /\ \A s \in CreatedFrom(pod, t[i].at) : s.ExternalIP = address

\* An entry of the cache stays as it is while the process runs.
C12_Kept ==
    \A n \in DOMAIN cachedExternalIPs :
        \/ n \in DOMAIN cachedExternalIPs' /\ cachedExternalIPs'[n] = cachedExternalIPs[n]
        \/ pc' \in {"main", "dead"} /\ DOMAIN cachedExternalIPs' = {}

\* C12. Once a query of a node has found an ExternalIP entry, no later
\* exposure of a port of a pod on that node in this process run queries the
\* node (not the later ports of the same pass, not the passes of later
\* events), and the services they create carry the cached address, also when
\* the node's address has changed since; an entry of the cache is neither
\* changed nor removed while the process runs.
C12_PositiveLookedUpOnce == [][C12_Lookup /\ C12_Kept]_vars

\* C12 witness: a pass created a service with the cached address, without a
\* query, for a node whose ExternalIP entry holds another address by now.
C12_Witness ==
    /\ IsAddedOrModified
    /\ Idx(last.trace, "GetNode") = {}
    /\ \E i \in Idx(last.trace, "CreateService") : last.trace[i].ok
    /\ last.pod.NodeName \in DOMAIN cachedExternalIPs
    /\ \E s \in services :
          /\ s.Namespace = last.pod.Namespace
          /\ s.forPod = last.pod.Name
          /\ s.ExternalIP = cachedExternalIPs[last.pod.NodeName]
    /\ LET addrs == nodeAddr[last.pod.NodeName]
       IN  /\ FirstExternal(addrs) # 0
           /\ addrs[FirstExternal(addrs)].Address # cachedExternalIPs[last.pod.NodeName]

C13_Loop ==
    /\ last'.kind = "event" => (pc = "watch" /\ pc' = "watch")
    /\ (last'.kind = "event" /\ ~last'.deleted /\ last'.wasHandled) => last'.trace = <<>>
    /\ (pc = "watch" /\ pc' = "watch" /\ last'.kind # "event") =>
          UNCHANGED <<handledPods, cachedExternalIPs>>
    /\ (pc = "watch" /\ pc' = "dead" /\ last'.kind # "killed") =>
          (last'.kind = "panic" /\ last'.at = "Watch")

\* C13. While the loop runs, a step that handles no event (the stream closes
\* and a new subscription is opened) leaves handledPods and the cache as they
\* are, and an Added event of a pod in handledPods issues no call; the loop is
\* in its subscription after every handled event, whatever the event
\* returned; and when the loop itself ends the process, it is because Watch
\* returned an error.
C13_WatchLoopRestart == [][C13_Loop]_vars

C14_Once ==
    /\ reaped \in {0, 1}
    /\ pc = "main" => (reaped = 0 /\ last.kind = "none" /\ handledPods = {})
    /\ pc \in {"open", "watch"} => reaped = 1
    /\ last.kind \in {"event", "killed"} => reaped = 1

C14_Order ==
    /\ last'.kind = "reaper" => (pc = "main" /\ reaped = 0 /\ reaped' = 1)
    /\ last'.kind \in {"event", "killed"} => (pc = "watch" /\ reaped = 1 /\ reaped' = 1)
    /\ (pc = "watch" /\ pc' \in {"open", "watch"}) => reaped' = reaped

\* C14. In a process run the stale-service pass runs once, before the watch
\* loop: while main has not run the pass no event has been handled, every
\* event is handled after the one pass, and a step of the watch loop
\* (handling an event, opening the next subscription) does not run the pass
\* again.
C14_ReaperOnce == [](C14_Once) /\ [][C14_Order]_vars

\* C14 witness: an event's creation pass has run after the one reaper pass of
\* the process run.
C14_Witness ==
    /\ IsAddedOrModified
    /\ last.trace # <<>>
    /\ reaped = 1
    /\ pc = "watch"

\* C15. A reaper pass that got both lists issues one delete for every stale
\* service, also when one of the deletes fails, returns no error, and main
\* goes on to open the watch; a pass that got the list of the services
\* returns no error whatever its deletes return.
C15_ReaperDeleteFailures ==
    [][(pc = "main" /\ last'.kind = "reaper" /\ ~last'.servicesFail) =>
          /\ ~last'.err
          /\ pc' = "open"
          /\ ~last'.podsFail =>
                /\ Targets(last'.trace, "DeleteService")
                      = {<<s.Namespace, s.Name>> : s \in StaleServices}
                /\ Cardinality(Idx(last'.trace, "DeleteService"))
                      = Cardinality(StaleServices)]_vars

\* C15 witness: a pass with two deletes, one of which failed, has ended and
\* the watch is about to be opened.
C15_Witness ==
    /\ last.kind = "reaper"
    /\ pc = "open"
    /\ \E i, j \in Idx(last.trace, "DeleteService") :
          i # j /\ ~last.trace[i].ok /\ last.trace[j].ok

\* The pod of the cluster is live and is as the last event showed it.
AsDelivered(pod) ==
    /\ pods[IdOf(pod)].st = "live"
    /\ PodObject(IdOf(pod), pods[IdOf(pod)]).Label = pod.Label
    /\ PodObject(IdOf(pod), pods[IdOf(pod)]).Phase = pod.Phase
    /\ PodObject(IdOf(pod), pods[IdOf(pod)]).PodIP = pod.PodIP

\* C16. While no failure has been injected into any call: when an Added or
\* Modified event showing a live pod running with an IP and a valid port list
\* has been handled without a failed call, the pod has its service, endpoints
\* and annotation for each requested port (nothing else would give them to it
\* later: the next events of the pod are skipped or repeat the same pass);
\* and when the Deleted event of a pod with a valid list has been handled, no
\* service of the pod remains. This for every pod identifier, also one that a
\* new pod got after the Deleted event of the old one was not delivered.
C16_EventualExposure ==
    faultsLeft = MaxFaults =>
      /\ (/\ IsAddedOrModified
          /\ Eligible(last.pod)
          /\ Requested(last.pod).ok
          /\ AllCallsSucceeded
          /\ AsDelivered(last.pod)) => Exposed(IdOf(last.pod))
      /\ (IsDeleted /\ Requested(last.pod).ok) =>
            ~\E s \in services :
                s.Namespace = last.pod.Namespace /\ s.forPod = last.pod.Name

\* C17. For a label value of n tokens separated by dots: when every token is
\* a decimal number greater than 0 and less than 65536, the result is the n
\* numbers in the order of the tokens, without an error; when some token is
\* no number (the empty token is none) or is out of that range, the result is
\* an error and no port.
C17_Parsing ==
    last.kind = "parsed" =>
      LET toks == last.tokens
          r == last.result
      IN  IF \A i \in 1..Len(toks) :
                 toks[i].numeric /\ toks[i].value > 0 /\ toks[i].value < 65536
          THEN /\ r.ok
               /\ r.ports = [i \in 1..Len(toks) |-> toks[i].value]
          ELSE /\ ~r.ok
               /\ r.ports = <<>>

\* C17 witness: three tokens, the largest port first, have been parsed into
\* three ports.
C17_Witness ==
    /\ last.kind = "parsed"
    /\ last.result.ok
    /\ Len(last.result.ports) = 3
    /\ last.result.ports[1] = 65535
    /\ last.result.ports[3] = 1

\* C18. After every handled event, whatever its calls returned: every
\* endpoints object has a service of its name in its namespace, and every
\* service has its endpoints object.
C18_Pairing ==
    IsEvent =>
      /\ \A e \in endpoints : HasObject(services, e.Namespace, e.Name)
      /\ \A s \in services : HasObject(endpoints, s.Namespace, s.Name)

\* C19. A handled Deleted event has taken the pod out of handledPods as its
\* first step, before any delete: the pod is out of handledPods after it
\* also when the label does not parse (an error, and no delete at all) or a
\* delete failed; a failed delete is the last step of the event (no delete for
\* a later port) and the event returns its error.
C19_DeletedErrorPath ==
    IsDeleted =>
      LET t == last.trace
          pod == last.pod
      IN  /\ t # <<>>
          /\ t[1].op = "unmark"
          /\ t[1].name = KeyOf(pod)
          /\ KeyOf(pod) \notin handledPods
          /\ ~Requested(pod).ok => (last.err /\ Len(t) = 1)
          /\ \A i \in 2..Len(t) : t[i].op = "DeleteService"
          /\ \A i \in Idx(t, "DeleteService") :
                ~t[i].ok => (last.err /\ i = Len(t))

\* C19 witness: the Deleted event of a handled pod with two ports, none of
\* whose services exists, has failed at the first delete.
C19_Witness ==
    /\ IsDeleted
    /\ last.wasHandled
    /\ Len(Requested(last.pod).ports) = 2
    /\ Len(last.trace) = 2
    /\ last.trace[2].op = "DeleteService"
    /\ ~last.trace[2].ok
    /\ last.err
    /\ ~HasObject(services, last.pod.Namespace, last.trace[2].name)

\* C20. A reaper pass one of whose two list calls failed issues no delete.
C20_ListFailuresDeleteNothing ==
    (last.kind = "reaper" /\ (last.podsFail \/ last.servicesFail)) =>
        Idx(last.trace, "DeleteService") = {}

====
